---------------------------- MODULE Spec2Model ----------------------------
(***************************************************************************)
(* Orbit camera of src/shared/camera.js: the Camera class, the pointer,    *)
(* wheel and key listeners and the per-tick aggregator handleInputs.       *)
(*                                                                         *)
(* JavaScript numbers are modelled as fixed-point integers: the integer n  *)
(* stands for the number n / Scale.  Products and quotients are rounded to *)
(* the nearest multiple of 1 / Scale, so arithmetic is exact up to one     *)
(* unit in the last place, as a double is exact up to one ulp.             *)
(***************************************************************************)
EXTENDS Integers, Sequences, FiniteSets, TLC

\* ------------------------------------------------------------------------
\* Fixed-point arithmetic
\* ------------------------------------------------------------------------

\* one unit of the model is 1 / Scale
Scale == 10 ^ 4

Abs(a) == IF a < 0 THEN -a ELSE a

Sgn(a) == IF a < 0 THEN -1 ELSE IF a > 0 THEN 1 ELSE 0

Max(a, b) == IF a >= b THEN a ELSE b

Min(a, b) == IF a <= b THEN a ELSE b

\* the fixed-point number of the integer n
Num(n) == n * Scale

\* x * y for 0 <= y <= x, rounded to nearest, computed without leaving 32 bits
MulPos(x, y) == (x \div Scale) * y + ((x % Scale) * y + Scale \div 2) \div Scale

\* the JavaScript product a * b
Mul(a, b) == Sgn(a) * Sgn(b) * MulPos(Max(Abs(a), Abs(b)), Min(Abs(a), Abs(b)))

RECURSIVE DivPos(_, _)
\* a / b for a >= 0, b > 0, rounded to nearest; a large divisor is first
\* reduced, with the dividend, to five significant digits
DivPos(a, b) ==
  IF b >= 20 * Scale
  THEN LET t == b \div (10 * Scale) + 1 IN DivPos(a \div t, b \div t)
  ELSE (a \div b) * Scale + ((a % b) * Scale + b \div 2) \div b

\* the JavaScript quotient a / b (b # 0)
Div(a, b) == Sgn(a) * Sgn(b) * DivPos(Abs(a), Abs(b))

RECURSIVE Newton(_, _)
Newton(n, x) ==
  LET y == (x + n \div x) \div 2
  IN  IF y >= x THEN x ELSE Newton(n, y)

\* floor of the square root of the integer n >= 0
Isqrt(n) ==
  IF n < 2 THEN n ELSE Newton(n, IF n > 4 * Scale * Scale THEN n ELSE 2 * Scale)

\* Math.PI
PI == 31416

\* x reduced into (-PI, PI] by whole turns
WrapPi(x) ==
  LET r == x % (2 * PI)
  IN  IF r > PI THEN r - 2 * PI ELSE r

\* Taylor polynomial of sin on [-PI/2, PI/2], in Horner form
SinPoly(x) ==
  LET x2 == Mul(x, x)
      h5 == Scale - x2 \div 110
      h4 == Scale - Mul(x2, h5) \div 72
      h3 == Scale - Mul(x2, h4) \div 42
      h2 == Scale - Mul(x2, h3) \div 20
      h1 == Scale - Mul(x2, h2) \div 6
  IN  Mul(x, h1)

\* Taylor polynomial of cos on [-PI/2, PI/2], in Horner form
CosPoly(x) ==
  LET x2 == Mul(x, x)
      h5 == Scale - x2 \div 90
      h4 == Scale - Mul(x2, h5) \div 56
      h3 == Scale - Mul(x2, h4) \div 30
      h2 == Scale - Mul(x2, h3) \div 12
  IN  Scale - Mul(x2, h2) \div 2

\* r in (-PI, PI] mirrored into [-PI/2, PI/2]: sin keeps its value, cos
\* changes sign when the mirror is used
Mirror(r) ==
  IF r > PI \div 2 THEN PI - r
  ELSE IF r < -(PI \div 2) THEN -PI - r
  ELSE r

\* Math.sin
Sin(x) == SinPoly(Mirror(WrapPi(x)))

\* Math.cos
Cos(x) ==
  LET r == WrapPi(x)
  IN  (IF Mirror(r) = r THEN 1 ELSE -1) * CosPoly(Mirror(r))

\* Math.tan
Tan(x) == Div(Sin(x), Cos(x))

\* ------------------------------------------------------------------------
\* Vectors (the vec3 library as camera.js uses it)
\* ------------------------------------------------------------------------

\* vec3.create()
Zero3 == <<0, 0, 0>>

\* vec3.add(a, b)
VAdd(a, b) == <<a[1] + b[1], a[2] + b[2], a[3] + b[3]>>

\* vec3.subtract(a, b)
VSub(a, b) == <<a[1] - b[1], a[2] - b[2], a[3] - b[3]>>

\* vec3.scale(a, s)
VScale(a, s) == <<Mul(a[1], s), Mul(a[2], s), Mul(a[3], s)>>

\* vec3.scaleAndAdd(a, b, s): a + b * s
VScaleAndAdd(a, b, s) == VAdd(a, VScale(b, s))

\* vec3.cross(a, b)
VCross(a, b) ==
  << Mul(a[2], b[3]) - Mul(a[3], b[2]),
     Mul(a[3], b[1]) - Mul(a[1], b[3]),
     Mul(a[1], b[2]) - Mul(a[2], b[1]) >>

\* vec3.normalize(a): a / |a|; the components are first divided by the
\* largest of them so that the squares stay within 32 bits
VNormalize(a) ==
  LET m == Max(Abs(a[1]), Max(Abs(a[2]), Abs(a[3])))
  IN  IF m = 0 THEN Zero3
      ELSE LET c   == <<Div(a[1], m), Div(a[2], m), Div(a[3], m)>>
               len == Isqrt(c[1] * c[1] + c[2] * c[2] + c[3] * c[3])
           IN  <<Div(c[1], len), Div(c[2], len), Div(c[3], len)>>

\* ------------------------------------------------------------------------
\* Constants of camera.js
\* ------------------------------------------------------------------------

\* clamp(x, min, max) == Math.max(min, Math.min(max, x))
clamp(x, min, max) == Max(min, Min(max, x))

toRad(x) == Mul(x, PI) \div 180

ROT_SPEED == 50

PAN_SPEED == 10

ZOOM_SPEED == 5

FOV_SPEED == 2

\* 3 / 15
KEY_ROT_SPEED == Div(Num(3), Num(15))

\* 5 / 15
KEY_PAN_SPEED == Div(Num(5), Num(15))

\* 0.01 / 15
KEY_ZOOM_SPEED == Div(100, Num(15))

\* 0.005 / 15
KEY_FOV_SPEED == Div(50, Num(15))

minFOV == toRad(Num(1))

maxFOV == toRad(Num(120))

defaults ==
  [ target      |-> Zero3,
    distance    |-> Num(1),
    position    |-> Zero3,
    azimuth     |-> 0,
    elevation   |-> 0,
    fov         |-> toRad(Num(60)),
    near        |-> Scale \div 10,
    far         |-> Num(100),
    invertMatrix |-> TRUE ]

\* the pole-avoidance limit of orbit: Math.PI / 2 - 0.01
limit == PI \div 2 - Scale \div 100

\* ------------------------------------------------------------------------
\* class Camera.  A world w is the camera object (w.cam), the renderer's
\* uniforms (w.uni) and the list of Camera methods entered so far by the
\* running handler (w.log).  Every method maps a world to a world.
\* ------------------------------------------------------------------------

\* one entry of the call log
Call(op, args) == [op |-> op, args |-> args]

\* 1 for true, 0 for false: a boolean used as a number
B2N(b) == IF b THEN 1 ELSE 0

worldUp == <<0, Scale, 0>>

\* get viewDir
viewDir(cam) == VNormalize(VSub(cam.target, cam.position))

\* get viewRight
viewRight(cam) == VNormalize(VCross(viewDir(cam), cam.worldUp))

\* get viewUp
viewUp(cam) == VNormalize(VCross(viewRight(cam), viewDir(cam)))

\* the matrix inverse(perspective(fov, aspect, near, far) * lookAt(position,
\* target, worldUp)), kept as the arguments it is computed from; aspect is
\* kept as the pair (clientWidth, clientHeight) it is the quotient of
InvViewProj(cam, cv) ==
  [ set |-> TRUE, fov |-> cam.fov, near |-> cam.near, far |-> cam.far,
    aspect |-> <<cv.clientWidth, cv.clientHeight>>,
    position |-> cam.position, target |-> cam.target ]

\* the renderer's invMatrix before the first upload
NoMatrix ==
  [ set |-> FALSE, fov |-> 0, near |-> 0, far |-> 0, aspect |-> <<0, 0>>,
    position |-> Zero3, target |-> Zero3 ]

updateMatrix(w) ==
  [w EXCEPT !.uni =
     [ invMatrix |-> IF w.cam.invertMatrix
                     THEN InvViewProj(w.cam, w.canvas)
                     ELSE w.uni.invMatrix,
       cameraPos |-> w.cam.position ]]

sphericalDirection(azimuth, elevation) ==
  << Mul(Cos(elevation), Sin(azimuth)),
     Sin(elevation),
     Mul(Cos(elevation), Cos(azimuth)) >>

updatePosition(w) ==
  LET dir == sphericalDirection(w.cam.azimuth, w.cam.elevation)
      pos == VScaleAndAdd(w.cam.target, dir, w.cam.distance)
  IN  updateMatrix([w EXCEPT !.cam.position = pos,
                             !.log = Append(@, Call("updatePosition", <<>>))])

\* orbit with the pole clamp left out
orbitUnclamped(w, dx, dy) ==
  updatePosition([w EXCEPT !.cam.azimuth = @ - Mul(dx, ROT_SPEED),
                           !.cam.elevation = @ + Mul(dy, ROT_SPEED),
                           !.log = Append(@, Call("orbit", <<dx, dy>>))])

orbit(w, dx, dy) ==
  LET az == w.cam.azimuth - Mul(dx, ROT_SPEED)
      el == w.cam.elevation + Mul(dy, ROT_SPEED)
  IN  updatePosition([w EXCEPT !.cam.azimuth = az,
                               !.cam.elevation = clamp(el, -limit, limit),
                               !.log = Append(@, Call("orbit", <<dx, dy>>))])

pan(w, dx, dy, dz) ==
  LET adjustedPanSpeed == Mul(Mul(PAN_SPEED, w.cam.distance), w.cam.fov)
      p == VScaleAndAdd(
             VScaleAndAdd(
               VScale(viewRight(w.cam), Mul(-dx, adjustedPanSpeed)),
               viewUp(w.cam),
               Mul(dy, adjustedPanSpeed)),
             viewDir(w.cam),
             Mul(dz, adjustedPanSpeed))
  IN  updatePosition([w EXCEPT !.cam.target = VAdd(@, p),
                               !.cam.position = VAdd(@, p),
                               !.log = Append(@, Call("pan", <<dx, dy, dz>>))])

\* zoom that adds delta instead of scaling by 1 + delta
zoomAdditive(w, delta) ==
  updatePosition(
    [w EXCEPT !.cam.distance = clamp(w.cam.distance + delta, w.cam.near, w.cam.far),
              !.log = Append(@, Call("zoom", <<delta>>))])

\* zoom that forgets to recompute the position
zoomStalePosition(w, delta) ==
  [w EXCEPT !.cam.distance =
               clamp(Mul(delta + Scale, w.cam.distance), w.cam.near, w.cam.far),
            !.log = Append(@, Call("zoom", <<delta>>))]

zoom(w, delta) ==
  updatePosition(
    [w EXCEPT !.cam.distance =
                 clamp(Mul(delta + Scale, w.cam.distance), w.cam.near, w.cam.far),
              !.log = Append(@, Call("zoom", <<delta>>))])

\* adjFOV with the clamp left out
adjFOVUnclamped(w, delta) ==
  updatePosition(
    [w EXCEPT !.cam.fov = w.cam.fov + delta,
              !.log = Append(@, Call("adjFOV", <<delta>>))])

\* adjFOV that compensates the distance as adjFOVWithoutZoom does
adjFOVCompensated(w, delta) ==
  LET initial == Mul(Tan(w.cam.fov \div 2), w.cam.distance)
      fov     == clamp(w.cam.fov + delta, minFOV, maxFOV)
  IN  updatePosition(
        [w EXCEPT !.cam.fov = fov,
                  !.cam.distance = Div(initial, Tan(fov \div 2)),
                  !.log = Append(@, Call("adjFOV", <<delta>>))])

adjFOV(w, delta) ==
  updatePosition(
    [w EXCEPT !.cam.fov = clamp(w.cam.fov + delta, minFOV, maxFOV),
              !.log = Append(@, Call("adjFOV", <<delta>>))])

\* adjFOVWithoutZoom that takes the apparent size from the full angle
adjFOVWithoutZoomFullAngle(w, delta) ==
  LET initial == Mul(Tan(w.cam.fov), w.cam.distance)
      fov     == clamp(w.cam.fov + delta, minFOV, maxFOV)
  IN  updatePosition(
        [w EXCEPT !.cam.fov = fov,
                  !.cam.distance = Div(initial, Tan(fov \div 2)),
                  !.log = Append(@, Call("adjFOVWithoutZoom", <<delta>>))])

adjFOVWithoutZoom(w, delta) ==
  LET initial == Mul(Tan(w.cam.fov \div 2), w.cam.distance)
      fov     == clamp(w.cam.fov + delta, minFOV, maxFOV)
  IN  updatePosition(
        [w EXCEPT !.cam.fov = fov,
                  !.cam.distance = Div(initial, Tan(fov \div 2)),
                  !.log = Append(@, Call("adjFOVWithoutZoom", <<delta>>))])

\* reset that forgets the target
resetKeepsTarget(w, e) ==
  LET w1 == [w EXCEPT !.cam.fov = defaults.fov,
                      !.log = Append(@, Call("reset", <<B2N(e.ctrlKey), B2N(e.altKey)>>))]
      w2 == IF ~e.ctrlKey THEN [w1 EXCEPT !.cam.distance = defaults.distance]
            ELSE w1
      w3 == IF ~e.altKey /\ ~e.ctrlKey
            THEN [w2 EXCEPT !.cam.azimuth = defaults.azimuth,
                            !.cam.elevation = defaults.elevation]
            ELSE w2
  IN  updatePosition(w3)

\* reset that restores the distance whatever the modifiers
resetAlwaysDistance(w, e) ==
  LET w1 == [w EXCEPT !.cam.fov = defaults.fov,
                      !.cam.distance = defaults.distance,
                      !.log = Append(@, Call("reset", <<B2N(e.ctrlKey), B2N(e.altKey)>>))]
      w3 == IF ~e.altKey /\ ~e.ctrlKey
            THEN [w1 EXCEPT !.cam.azimuth = defaults.azimuth,
                            !.cam.elevation = defaults.elevation,
                            !.cam.target = defaults.target]
            ELSE w1
  IN  updatePosition(w3)

\* reset(e): e carries ctrlKey and altKey
reset(w, e) ==
  LET w1 == [w EXCEPT !.cam.fov = defaults.fov,
                      !.log = Append(@, Call("reset", <<B2N(e.ctrlKey), B2N(e.altKey)>>))]
      w2 == IF ~e.ctrlKey THEN [w1 EXCEPT !.cam.distance = defaults.distance]
            ELSE w1
      w3 == IF ~e.altKey /\ ~e.ctrlKey
            THEN [w2 EXCEPT !.cam.azimuth = defaults.azimuth,
                            !.cam.elevation = defaults.elevation,
                            !.cam.target = defaults.target]
            ELSE w2
  IN  updatePosition(w3)

\* the canvas element when the camera is constructed: the size of a canvas
\* that has not been laid out otherwise
canvas0 == [clientWidth |-> 300, clientHeight |-> 150]

\* new Camera(defaults): updatePosition runs before invertMatrix is assigned
NewCamera ==
  LET c0 == [ target |-> defaults.target, distance |-> defaults.distance,
              position |-> defaults.position, azimuth |-> defaults.azimuth,
              elevation |-> defaults.elevation, fov |-> defaults.fov,
              near |-> defaults.near, far |-> defaults.far,
              worldUp |-> worldUp, invertMatrix |-> FALSE ]
      w0 == [ cam |-> c0,
              uni |-> [invMatrix |-> NoMatrix, cameraPos |-> Zero3],
              log |-> <<>>,
              canvas |-> canvas0 ]
  IN  [updatePosition(w0) EXCEPT !.cam.invertMatrix = defaults.invertMatrix]

\* the method call c made on the camera of world w
Do(w, c) ==
  CASE c.op = "orbit" -> orbit(w, c.args[1], c.args[2])
    [] c.op = "pan" -> pan(w, c.args[1], c.args[2], c.args[3])
    [] c.op = "zoom" -> zoom(w, c.args[1])
    [] c.op = "adjFOV" -> adjFOV(w, c.args[1])
    [] c.op = "adjFOVWithoutZoom" -> adjFOVWithoutZoom(w, c.args[1])
    [] c.op = "reset" -> reset(w, [ctrlKey |-> c.args[1] = 1, altKey |-> c.args[2] = 1])
    [] c.op = "updatePosition" -> updatePosition(w)

RECURSIVE Run(_, _)
\* the method calls cs made one after the other
Run(w, cs) == IF cs = <<>> THEN w ELSE Run(Do(w, Head(cs)), Tail(cs))

\* handleInputs that calls zoom with a zero delta when keyZoom is not set
InputCallsUnskipped(speedMultiplier, ks, kOrbit, kPan, kZoom, kFOV, kFOVWithoutZoom) ==
  LET rotSpeed == Mul(KEY_ROT_SPEED, speedMultiplier)
      panSpeed == Mul(KEY_PAN_SPEED, speedMultiplier)
      zoomDir  == B2N(ks.zoom["out"]) - B2N(ks.zoom["in"])
  IN  (IF kOrbit
       THEN << Call("orbit",
                 << (B2N(ks.orbit["left"]) - B2N(ks.orbit["right"])) * rotSpeed,
                    (B2N(ks.orbit["up"]) - B2N(ks.orbit["down"])) * rotSpeed >>) >>
       ELSE <<>>)
      \o
      (IF kPan
       THEN << Call("pan",
                 << (B2N(ks.pan["left"]) - B2N(ks.pan["right"])) * panSpeed,
                    (B2N(ks.pan["up"]) - B2N(ks.pan["down"])) * panSpeed,
                    (B2N(ks.pan["forward"]) - B2N(ks.pan["backward"])) * panSpeed >>) >>
       ELSE <<>>)
      \o
      <<Call("zoom", <<Mul(B2N(kZoom) * zoomDir * KEY_ZOOM_SPEED, speedMultiplier)>>)>>
      \o
      (IF kFOV
       THEN <<Call("adjFOV", <<Mul(zoomDir * KEY_FOV_SPEED, speedMultiplier)>>)>>
       ELSE <<>>)
      \o
      (IF kFOVWithoutZoom
       THEN <<Call("adjFOVWithoutZoom",
                   <<Mul(zoomDir * KEY_FOV_SPEED, speedMultiplier)>>)>>
       ELSE <<>>)

\* the calls of one handleInputs(speedMultiplier), in the order of its five
\* ifs, given the key flags at the tick
InputCalls(speedMultiplier, ks, kOrbit, kPan, kZoom, kFOV, kFOVWithoutZoom) ==
  LET rotSpeed == Mul(KEY_ROT_SPEED, speedMultiplier)
      panSpeed == Mul(KEY_PAN_SPEED, speedMultiplier)
      zoomDir  == B2N(ks.zoom["out"]) - B2N(ks.zoom["in"])
  IN  (IF kOrbit
       THEN << Call("orbit",
                 << (B2N(ks.orbit["left"]) - B2N(ks.orbit["right"])) * rotSpeed,
                    (B2N(ks.orbit["up"]) - B2N(ks.orbit["down"])) * rotSpeed >>) >>
       ELSE <<>>)
      \o
      (IF kPan
       THEN << Call("pan",
                 << (B2N(ks.pan["left"]) - B2N(ks.pan["right"])) * panSpeed,
                    (B2N(ks.pan["up"]) - B2N(ks.pan["down"])) * panSpeed,
                    (B2N(ks.pan["forward"]) - B2N(ks.pan["backward"])) * panSpeed >>) >>
       ELSE <<>>)
      \o
      (IF kZoom
       THEN <<Call("zoom", <<Mul(zoomDir * KEY_ZOOM_SPEED, speedMultiplier)>>)>>
       ELSE <<>>)
      \o
      (IF kFOV
       THEN <<Call("adjFOV", <<Mul(zoomDir * KEY_FOV_SPEED, speedMultiplier)>>)>>
       ELSE <<>>)
      \o
      (IF kFOVWithoutZoom
       THEN <<Call("adjFOVWithoutZoom",
                   <<Mul(zoomDir * KEY_FOV_SPEED, speedMultiplier)>>)>>
       ELSE <<>>)

\* handleInputs(speedMultiplier)
handleInputs(w, speedMultiplier, ks, kOrbit, kPan, kZoom, kFOV, kFOVWithoutZoom) ==
  Run(w, InputCalls(speedMultiplier, ks, kOrbit, kPan, kZoom, kFOV, kFOVWithoutZoom))

\* ------------------------------------------------------------------------
\* Interaction state and key tables
\* ------------------------------------------------------------------------

keyMap ==
  [ ArrowUp    |-> [type |-> "orbit", dir |-> "up"],
    ArrowDown  |-> [type |-> "orbit", dir |-> "down"],
    ArrowLeft  |-> [type |-> "orbit", dir |-> "left"],
    ArrowRight |-> [type |-> "orbit", dir |-> "right"],
    w |-> [type |-> "pan", dir |-> "forward"],
    a |-> [type |-> "pan", dir |-> "left"],
    s |-> [type |-> "pan", dir |-> "backward"],
    d |-> [type |-> "pan", dir |-> "right"],
    g |-> [type |-> "pan", dir |-> "up"],
    v |-> [type |-> "pan", dir |-> "down"],
    f |-> [type |-> "zoom", dir |-> "in"],
    c |-> [type |-> "zoom", dir |-> "out"] ]

\* keyState as the script initialises it
keyState0 ==
  [ orbit |-> [d \in {"up", "down", "left", "right"} |-> FALSE],
    pan   |-> [d \in {"up", "down", "left", "right", "forward", "backward"} |-> FALSE],
    zoom  |-> [d \in {"in", "out"} |-> FALSE] ]

\* state as the script initialises it
state0 == [orbitActive |-> FALSE, panActive |-> FALSE, lastX |-> 0, lastY |-> 0]

\* Object.values(o).some(Boolean)
SomeTrue(o) == \E d \in DOMAIN o : o[d]

\* ------------------------------------------------------------------------
\* State
\* ------------------------------------------------------------------------

VARIABLES
  camera,             \* the Camera object
  uni,                \* uni.values: what the renderer has been given
  canvas,             \* the canvas element: clientWidth and clientHeight
  state,              \* pointer interaction state
  keyState,           \* direction flags of the keyboard
  keyOrbit, keyPan, keyZoom, keyFOV, keyFOVWithoutZoom,
  last,               \* the handler that ran last
  calls,              \* the Camera methods it entered, in order, with arguments
  steps               \* number of handlers run so far

poseVars == <<camera, uni>>

keyVars == <<keyState, keyOrbit, keyPan, keyZoom, keyFOV, keyFOVWithoutZoom>>

vars == <<camera, uni, canvas, state, keyState, keyOrbit, keyPan, keyZoom, keyFOV,
          keyFOVWithoutZoom, last, calls, steps>>

\* ------------------------------------------------------------------------
\* Bounds and input sets
\* ------------------------------------------------------------------------

\* handlers run in one behaviour
MaxSteps == 3

\* handlers run in one behaviour of the whole page
MaxMixed == 2

\* handlers run in one behaviour of held keys
MaxHeld == 5

\* direct calls that come first in a behaviour of held keys
MaxSetup == 2

\* distances (in units of 1 / Scale) the fixed-point numbers can carry
\* through one more operation
MinDistance == 100

MaxDistance == 10000000

\* (dx, dy) of a direct orbit call
OrbitInputs ==
  { <<Num(100), 0>>, <<0, Num(100)>>, <<Num(-100), Num(-100)>>,
    <<0, Num(400)>>, <<Num(100), Num(-400)>> }

\* (dx, dy, dz) of a direct pan call
PanInputs ==
  { <<Num(100), 0, 0>>, <<0, Num(100), 0>>, <<0, 0, Num(100)>>,
    <<Num(-100), Num(-100), Num(-100)>> }

ZoomDeltas == {-Num(1), -(Scale \div 2), Scale \div 10, Num(9)}

FovDeltas == {-Num(3), Scale \div 2, Num(3)}

\* (clientX, clientY) of a pointer event
Points == {<<0, 0>>, <<Num(100), 0>>, <<0, Num(400)>>}

Buttons == {0, 1, 2}

WheelDeltas == {Num(-20000), Num(-100), Num(100), Num(20000)}

Keys == DOMAIN keyMap \cup {" ", "r", "Alt", "Control"}

TagNames == {"BODY", "INPUT"}

SpeedMultipliers == {Num(1), Num(100)}

\* (clientWidth, clientHeight) the layout may give the canvas
CanvasSizes ==
  { [clientWidth |-> 800, clientHeight |-> 600],
    [clientWidth |-> 0, clientHeight |-> 600],
    [clientWidth |-> 800, clientHeight |-> 0] }

Modifiers == [ctrlKey : BOOLEAN, altKey : BOOLEAN]

\* mousedown reads the button, the coordinates and (for reset) the modifiers
MouseDownEvents ==
  { [button |-> b, clientX |-> p[1], clientY |-> p[2],
     ctrlKey |-> m.ctrlKey, altKey |-> m.altKey] :
    b \in Buttons, p \in Points, m \in Modifiers }

\* mouseup reads the button
MouseUpEvents == [button : Buttons]

\* mousemove reads the coordinates
MouseMoveEvents == {[clientX |-> p[1], clientY |-> p[2]] : p \in Points}

WheelEvents == [deltaY : WheelDeltas, ctrlKey : BOOLEAN, altKey : BOOLEAN]

KeyEvents == [key : Keys, ctrlKey : BOOLEAN, altKey : BOOLEAN, target : TagNames]

\* key events of a longer run: the zoom-in and zoom-out keys under every
\* modifier, typed outside text inputs
HeldKeyEvents ==
  [key : {"f", "c"}, ctrlKey : BOOLEAN, altKey : BOOLEAN, target : {"BODY"}]

\* ------------------------------------------------------------------------
\* Handlers
\* ------------------------------------------------------------------------

\* the world a handler starts from
World == [cam |-> camera, uni |-> uni, log |-> <<>>, canvas |-> canvas]

\* a handler may run: the distance is one the fixed-point numbers can carry
CanRun ==
  /\ camera.distance >= MinDistance
  /\ camera.distance <= MaxDistance

\* the handler named h ran and left the world w
Ran(h, w) ==
  /\ camera' = w.cam
  /\ uni' = w.uni
  /\ canvas' = w.canvas
  /\ calls' = w.log
  /\ last' = h
  /\ steps' = steps + 1

Init ==
  /\ camera = NewCamera.cam
  /\ uni = NewCamera.uni
  /\ canvas = NewCamera.canvas
  /\ state = state0
  /\ keyState = keyState0
  /\ keyOrbit = FALSE
  /\ keyPan = FALSE
  /\ keyZoom = FALSE
  /\ keyFOV = FALSE
  /\ keyFOVWithoutZoom = FALSE
  /\ last = "new"
  /\ calls = NewCamera.log
  /\ steps = 0

\* camera.orbit(dx, dy) called directly
CallOrbit(dx, dy) ==
  /\ CanRun
  /\ Ran("orbit", orbit(World, dx, dy))
  /\ UNCHANGED <<state, keyVars>>

CallPan(dx, dy, dz) ==
  /\ CanRun
  /\ Ran("pan", pan(World, dx, dy, dz))
  /\ UNCHANGED <<state, keyVars>>

CallZoom(delta) ==
  /\ CanRun
  /\ Ran("zoom", zoom(World, delta))
  /\ UNCHANGED <<state, keyVars>>

CallAdjFOV(delta) ==
  /\ CanRun
  /\ Ran("adjFOV", adjFOV(World, delta))
  /\ UNCHANGED <<state, keyVars>>

CallAdjFOVWithoutZoom(delta) ==
  /\ CanRun
  /\ Ran("adjFOVWithoutZoom", adjFOVWithoutZoom(World, delta))
  /\ UNCHANGED <<state, keyVars>>

\* camera.reset(e); reset() is reset of no modifiers
CallReset(e) ==
  /\ CanRun
  /\ Ran("reset", reset(World, e))
  /\ UNCHANGED <<state, keyVars>>

\* canvas mousedown
MouseDown(e) ==
  /\ CanRun
  /\ state' = [state EXCEPT
       !.orbitActive = IF e.button = 0 THEN TRUE ELSE @,
       !.panActive = IF e.button = 2 THEN TRUE ELSE @,
       !.lastX = e.clientX,
       !.lastY = e.clientY]
  /\ Ran("mousedown",
         IF e.button = 1 THEN updatePosition(reset(World, e)) ELSE World)
  /\ UNCHANGED keyVars

\* window mouseup
MouseUp(e) ==
  /\ CanRun
  /\ state' = [state EXCEPT
       !.orbitActive = IF e.button = 0 THEN FALSE ELSE @,
       !.panActive = IF e.button = 2 THEN FALSE ELSE @]
  /\ Ran("mouseup", World)
  /\ UNCHANGED keyVars

\* the mousemove listener that orbits whether or not the gesture is active
mousemoveUngated(w, st, e) ==
  LET dx == e.clientX - st.lastX
      dy == e.clientY - st.lastY
  IN  Run(w, <<Call("orbit", <<dx, dy>>)>>
             \o
             (IF st.panActive THEN <<Call("pan", <<dx, dy, 0>>)>> ELSE <<>>))

\* the camera calls of the mousemove listener, st being the interaction state
\* the event finds
mousemove(w, st, e) ==
  LET dx == e.clientX - st.lastX
      dy == e.clientY - st.lastY
  IN  Run(w, (IF st.orbitActive THEN <<Call("orbit", <<dx, dy>>)>> ELSE <<>>)
             \o
             (IF st.panActive THEN <<Call("pan", <<dx, dy, 0>>)>> ELSE <<>>))

\* canvas mousemove
MouseMove(e) ==
  /\ CanRun
  /\ state' = [state EXCEPT !.lastX = e.clientX, !.lastY = e.clientY]
  /\ Ran("mousemove", mousemove(World, state, e))
  /\ UNCHANGED keyVars

\* the wheel listener with ctrl tested before alt
wheelCtrlFirst(w, e) ==
  IF e.ctrlKey THEN adjFOV(w, Mul(e.deltaY, FOV_SPEED))
  ELSE IF e.altKey THEN adjFOVWithoutZoom(w, Mul(e.deltaY, FOV_SPEED))
  ELSE zoom(w, Mul(e.deltaY, ZOOM_SPEED))

\* the body of the wheel listener
wheel(w, e) ==
  IF e.altKey THEN adjFOVWithoutZoom(w, Mul(e.deltaY, FOV_SPEED))
  ELSE IF e.ctrlKey THEN adjFOV(w, Mul(e.deltaY, FOV_SPEED))
  ELSE zoom(w, Mul(e.deltaY, ZOOM_SPEED))

\* canvas wheel
Wheel(e) ==
  /\ CanRun
  /\ Ran("wheel", wheel(World, e))
  /\ UNCHANGED <<state, keyVars>>

\* keyCamera(e, val) returns at once
KeyIgnored(e) ==
  \/ e.key \notin DOMAIN keyMap
  \/ e.target = "INPUT"
  \/ (e.key = "r" /\ e.ctrlKey)

\* keyCamera whose ctrl guard is not limited to the key r
keyCameraCtrlGuard(e, val) ==
  IF KeyIgnored(e) \/ e.ctrlKey THEN UNCHANGED keyVars
  ELSE LET type == keyMap[e.key].type
           dir  == keyMap[e.key].dir
           ks   == [keyState EXCEPT ![type][dir] = val]
           zoomActive == ks.zoom["in"] \/ ks.zoom["out"]
       IN  /\ keyState' = ks
           /\ keyOrbit' = SomeTrue(ks.orbit)
           /\ keyPan' = SomeTrue(ks.pan)
           /\ keyZoom' = (~(e.ctrlKey \/ e.altKey) /\ zoomActive)
           /\ keyFOV' = (e.ctrlKey /\ zoomActive)
           /\ keyFOVWithoutZoom' = (e.altKey /\ zoomActive)

\* keyCamera that takes the zoom mode from the modifiers of zoom-key events
\* only
keyCameraModeOfZoomKey(e, val) ==
  IF KeyIgnored(e) THEN UNCHANGED keyVars
  ELSE LET type == keyMap[e.key].type
           dir  == keyMap[e.key].dir
           ks   == [keyState EXCEPT ![type][dir] = val]
           zoomActive == ks.zoom["in"] \/ ks.zoom["out"]
       IN  /\ keyState' = ks
           /\ keyOrbit' = SomeTrue(ks.orbit)
           /\ keyPan' = SomeTrue(ks.pan)
           /\ keyZoom' = IF type = "zoom"
                         THEN ~(e.ctrlKey \/ e.altKey) /\ zoomActive
                         ELSE keyZoom
           /\ keyFOV' = IF type = "zoom" THEN e.ctrlKey /\ zoomActive ELSE keyFOV
           /\ keyFOVWithoutZoom' = IF type = "zoom" THEN e.altKey /\ zoomActive
                                   ELSE keyFOVWithoutZoom

\* keyCamera that derives the zoom flags from the direction flags as they
\* were before the event
keyCameraStaleZoom(e, val) ==
  IF KeyIgnored(e) THEN UNCHANGED keyVars
  ELSE LET type == keyMap[e.key].type
           dir  == keyMap[e.key].dir
           ks   == [keyState EXCEPT ![type][dir] = val]
           zoomActive == keyState.zoom["in"] \/ keyState.zoom["out"]
       IN  /\ keyState' = ks
           /\ keyOrbit' = SomeTrue(ks.orbit)
           /\ keyPan' = SomeTrue(ks.pan)
           /\ keyZoom' = (~(e.ctrlKey \/ e.altKey) /\ zoomActive)
           /\ keyFOV' = (e.ctrlKey /\ zoomActive)
           /\ keyFOVWithoutZoom' = (e.altKey /\ zoomActive)

\* keyCamera(e, val)
keyCamera(e, val) ==
  IF KeyIgnored(e) THEN UNCHANGED keyVars
  ELSE LET type == keyMap[e.key].type
           dir  == keyMap[e.key].dir
           ks   == [keyState EXCEPT ![type][dir] = val]
           zoomActive == ks.zoom["in"] \/ ks.zoom["out"]
       IN  /\ keyState' = ks
           /\ keyOrbit' = SomeTrue(ks.orbit)
           /\ keyPan' = SomeTrue(ks.pan)
           /\ keyZoom' = (~(e.ctrlKey \/ e.altKey) /\ zoomActive)
           /\ keyFOV' = (e.ctrlKey /\ zoomActive)
           /\ keyFOVWithoutZoom' = (e.altKey /\ zoomActive)

\* window keydown
KeyDown(e) ==
  /\ CanRun
  /\ Ran("keydown", IF e.key = " " THEN reset(World, e) ELSE World)
  /\ keyCamera(e, TRUE)
  /\ UNCHANGED state

\* window keyup
KeyUp(e) ==
  /\ CanRun
  /\ Ran("keyup", World)
  /\ keyCamera(e, FALSE)
  /\ UNCHANGED state

\* one animation tick: camera.handleInputs(speedMultiplier)
Tick(speedMultiplier) ==
  /\ CanRun
  /\ Ran("tick", handleInputs(World, speedMultiplier, keyState, keyOrbit,
                              keyPan, keyZoom, keyFOV, keyFOVWithoutZoom))
  /\ UNCHANGED <<state, keyVars>>

\* a component may run one more handler
Short == steps < MaxSteps

\* the layout gives the canvas another size; no listener of the camera runs
Resize(size) ==
  /\ CanRun
  /\ canvas' = size
  /\ last' = "resize"
  /\ calls' = <<>>
  /\ steps' = steps + 1
  /\ UNCHANGED <<camera, uni, state, keyVars>>

\* the public operations of Camera, called directly
NextCamera ==
  \/ \E i \in OrbitInputs : Short /\ CallOrbit(i[1], i[2])
  \/ \E i \in PanInputs : Short /\ CallPan(i[1], i[2], i[3])
  \/ \E delta \in ZoomDeltas : Short /\ CallZoom(delta)
  \/ \E delta \in FovDeltas : Short /\ CallAdjFOV(delta)
  \/ \E delta \in FovDeltas : Short /\ CallAdjFOVWithoutZoom(delta)
  \/ \E e \in Modifiers : Short /\ CallReset(e)

\* the pointer and wheel listeners
NextPointer ==
  \/ \E e \in MouseDownEvents : Short /\ MouseDown(e)
  \/ \E e \in MouseUpEvents : Short /\ MouseUp(e)
  \/ \E e \in MouseMoveEvents : Short /\ MouseMove(e)
  \/ \E e \in WheelEvents : Short /\ Wheel(e)

\* the key listeners and the animation tick
NextKeys ==
  \/ \E e \in KeyEvents : Short /\ KeyDown(e)
  \/ \E e \in KeyEvents : Short /\ KeyUp(e)
  \/ \E m \in SpeedMultipliers : Short /\ Tick(m)

\* a longer run of held keys may run one more handler
Held == steps < MaxHeld

\* the direct calls that come before the keys are still going on
Setup == steps < MaxSetup

\* a camera moved by direct calls, then keys held down across ticks
NextHeld ==
  \/ \E delta \in ZoomDeltas : Setup /\ CallZoom(delta)
  \/ \E delta \in FovDeltas : Setup /\ CallAdjFOVWithoutZoom(delta)
  \/ \E e \in HeldKeyEvents : Held /\ KeyDown(e)
  \/ \E e \in HeldKeyEvents : Held /\ KeyUp(e)
  \/ \E m \in SpeedMultipliers : Held /\ Tick(m)

\* the whole page may run one more handler
Mixed == steps < MaxMixed

Next ==
  \/ \E i \in OrbitInputs : Mixed /\ CallOrbit(i[1], i[2])
  \/ \E i \in PanInputs : Mixed /\ CallPan(i[1], i[2], i[3])
  \/ \E delta \in ZoomDeltas : Mixed /\ CallZoom(delta)
  \/ \E delta \in FovDeltas : Mixed /\ CallAdjFOV(delta)
  \/ \E delta \in FovDeltas : Mixed /\ CallAdjFOVWithoutZoom(delta)
  \/ \E e \in Modifiers : Mixed /\ CallReset(e)
  \/ \E e \in MouseDownEvents : Mixed /\ MouseDown(e)
  \/ \E e \in MouseUpEvents : Mixed /\ MouseUp(e)
  \/ \E e \in MouseMoveEvents : Mixed /\ MouseMove(e)
  \/ \E e \in WheelEvents : Mixed /\ Wheel(e)
  \/ \E e \in KeyEvents : Mixed /\ KeyDown(e)
  \/ \E e \in KeyEvents : Mixed /\ KeyUp(e)
  \/ \E m \in SpeedMultipliers : Mixed /\ Tick(m)
  \/ \E size \in CanvasSizes : Mixed /\ Resize(size)

\* the whole page: direct calls, pointer, wheel, keys and ticks interleaved
Spec == Init /\ [][Next]_vars

\* the Camera class alone
SpecCamera == Init /\ [][NextCamera]_vars

\* the pointer and wheel listeners alone
SpecPointer == Init /\ [][NextPointer]_vars

\* the key listeners and the tick alone
SpecKeys == Init /\ [][NextKeys]_vars

\* a camera moved by direct calls, then held keys and ticks
SpecHeld == Init /\ [][NextHeld]_vars

\* ------------------------------------------------------------------------
\* Properties
\* ------------------------------------------------------------------------

\* the handler that ran last entered the method op
HasCall(op) == \E i \in DOMAIN calls : calls[i].op = op

\* the handler of this step enters the method op first
FirstCall(op) == calls' # <<>> /\ calls'[1].op = op

\* the handler of this step enters the method op and nothing else but the
\* updatePosition that ends it
OnlyCall(op) == Len(calls') = 2 /\ calls'[1].op = op

\* C1: in every reachable state the target-to-eye distance lies between the
\* clip distances: near <= distance <= far.
C1_DistanceWithinClipRange ==
  /\ camera.near <= camera.distance
  /\ camera.distance <= camera.far

\* C2: in every reachable state, and so after every adjFOV and
\* adjFOVWithoutZoom, minFOV <= fov <= maxFOV.
C2_FovWithinRange ==
  /\ minFOV <= camera.fov
  /\ camera.fov <= maxFOV

\* C2 witness: adjFOVWithoutZoom has run and the lower clamp was hit.
C2_Witness == HasCall("adjFOVWithoutZoom") /\ camera.fov = minFOV

\* C3: in every reachable state, and so after every orbit, the elevation lies
\* within 0.01 of the poles: -(pi/2 - 0.01) <= elevation <= pi/2 - 0.01.
C3_ElevationWithinPoles ==
  /\ -(PI \div 2 - Scale \div 100) <= camera.elevation
  /\ camera.elevation <= PI \div 2 - Scale \div 100

\* C3 witness: orbit has run and the upper clamp was hit.
C3_Witness == HasCall("orbit") /\ camera.elevation = PI \div 2 - Scale \div 100

\* the distance zoom(delta) is to leave when it starts at distance d
ZoomedDistance(d, delta) ==
  LET x == Mul(Scale + delta, d)
  IN  IF x < camera.near THEN camera.near
      ELSE IF x > camera.far THEN camera.far
      ELSE x

\* C4: zoom(delta) sets distance to distance * (1 + delta) brought into
\* [near, far]; zoom(0.1) at distance 10 gives 11 and zoom(-1) gives near.
C4_ZoomScalesAndClamps ==
  [][ FirstCall("zoom") =>
        LET delta == calls'[1].args[1]
        IN  /\ camera'.distance = ZoomedDistance(camera.distance, delta)
            /\ camera.near <= camera'.distance
            /\ camera'.distance <= camera.far
            /\ (camera.distance = Num(10) /\ delta = Scale \div 10)
                 => camera'.distance = Num(11)
            /\ delta = -Num(1) => camera'.distance = camera.near ]_vars

\* C4 witness: zoom(0.1) has run at distance 10 and left distance 11.
C4_Witness ==
  /\ calls # <<>>
  /\ calls[1] = Call("zoom", <<Scale \div 10>>)
  /\ camera.distance = Num(11)

\* tan(fov / 2) * distance
ApparentSize(cam) == Mul(Tan(cam.fov \div 2), cam.distance)

\* C5: adjFOVWithoutZoom(delta) with fov + delta strictly inside
\* (minFOV, maxFOV) keeps tan(fov/2) * distance, up to two units of rounding.
C5_ApparentSizePreserved ==
  [][ ( /\ FirstCall("adjFOVWithoutZoom")
        /\ camera.fov + calls'[1].args[1] > minFOV
        /\ camera.fov + calls'[1].args[1] < maxFOV )
      => Abs(ApparentSize(camera') - ApparentSize(camera)) <= 2 ]_vars

\* C5 witness: adjFOVWithoutZoom(0.5) has run without reaching a clamp and
\* has moved both fov and distance.
C5_Witness ==
  /\ calls # <<>>
  /\ calls[1] = Call("adjFOVWithoutZoom", <<Scale \div 2>>)
  /\ camera.fov > minFOV
  /\ camera.fov < maxFOV
  /\ camera.fov # defaults.fov
  /\ camera.distance # defaults.distance

\* target + distance * (cos(el) sin(az), sin(el), cos(el) cos(az))
EyeOf(cam) ==
  << cam.target[1] + Mul(Mul(Cos(cam.elevation), Sin(cam.azimuth)), cam.distance),
     cam.target[2] + Mul(Sin(cam.elevation), cam.distance),
     cam.target[3] + Mul(Mul(Cos(cam.elevation), Cos(cam.azimuth)), cam.distance) >>

\* C6: after construction and after every operation, position is
\* target + distance * sphericalDirection(azimuth, elevation).
C6_PositionIsDerived == camera.position = EyeOf(camera)

\* C6 witness: pan has run after an orbit or a zoom: the target has left the
\* origin and the eye is off the default axis or distance.
C6_Witness ==
  /\ HasCall("pan")
  /\ camera.target # Zero3
  /\ (camera.elevation # 0 \/ camera.distance # defaults.distance)

\* C7: reset with neither ctrl nor alt leaves azimuth, elevation, target,
\* distance and fov at their defaults: the pose of a new camera.
C7_ResetRestoresDefaults ==
  (calls # <<>> /\ calls[1] = Call("reset", <<0, 0>>))
  => /\ camera.azimuth = defaults.azimuth
     /\ camera.elevation = defaults.elevation
     /\ camera.target = defaults.target
     /\ camera.distance = defaults.distance
     /\ camera.fov = defaults.fov
     /\ camera = NewCamera.cam

\* C7 witness: a reset without modifiers has run as the third operation.
C7_Witness ==
  /\ calls # <<>>
  /\ calls[1] = Call("reset", <<0, 0>>)
  /\ steps >= 3

\* C8: reset always restores fov; with ctrl it keeps distance, azimuth,
\* elevation and target; with alt and no ctrl it restores distance and keeps
\* azimuth, elevation and target.
C8_PartialReset ==
  [][ FirstCall("reset") =>
        LET ctrl == calls'[1].args[1] = 1
            alt  == calls'[1].args[2] = 1
        IN  /\ camera'.fov = defaults.fov
            /\ ctrl => /\ camera'.distance = camera.distance
                       /\ camera'.azimuth = camera.azimuth
                       /\ camera'.elevation = camera.elevation
                       /\ camera'.target = camera.target
            /\ (alt /\ ~ctrl) => /\ camera'.distance = defaults.distance
                                 /\ camera'.azimuth = camera.azimuth
                                 /\ camera'.elevation = camera.elevation
                                 /\ camera'.target = camera.target ]_vars

\* C8 witness: reset with ctrl has run on a zoomed, orbited camera and kept
\* its distance and elevation.
C8_Witness ==
  /\ calls # <<>>
  /\ calls[1] = Call("reset", <<1, 0>>)
  /\ camera.fov = defaults.fov
  /\ camera.distance # defaults.distance
  /\ camera.elevation # defaults.elevation

\* C9: pan leaves distance, fov, azimuth and elevation unchanged; orbit leaves
\* target, distance and fov unchanged; adjFOV leaves distance, target, azimuth
\* and elevation unchanged.
C9_FrameConditions ==
  [][ /\ OnlyCall("pan") => /\ camera'.distance = camera.distance
                            /\ camera'.fov = camera.fov
                            /\ camera'.azimuth = camera.azimuth
                            /\ camera'.elevation = camera.elevation
      /\ OnlyCall("orbit") => /\ camera'.target = camera.target
                              /\ camera'.distance = camera.distance
                              /\ camera'.fov = camera.fov
      /\ OnlyCall("adjFOV") => /\ camera'.distance = camera.distance
                               /\ camera'.target = camera.target
                               /\ camera'.azimuth = camera.azimuth
                               /\ camera'.elevation = camera.elevation ]_vars

\* C9 witness: adjFOV has run on a zoomed camera, moved fov and kept the
\* distance.
C9_Witness ==
  /\ Len(calls) = 2
  /\ calls[1].op = "adjFOV"
  /\ camera.fov # defaults.fov
  /\ camera.distance # defaults.distance
  /\ camera.near <= camera.distance
  /\ camera.distance <= camera.far

\* number of keyboard zoom modes that are active
ZoomModes == B2N(keyZoom) + B2N(keyFOV) + B2N(keyFOVWithoutZoom)

\* the zoom-mode methods the last handler entered
ZoomModeCalls ==
  {i \in DOMAIN calls : calls[i].op \in {"zoom", "adjFOV", "adjFOVWithoutZoom"}}

\* C10: never more than one of keyZoom, keyFOV, keyFOVWithoutZoom is set, and
\* exactly one while a zoom-in or zoom-out flag is set; so a tick enters at
\* most one of zoom, adjFOV, adjFOVWithoutZoom.
C10_ExactlyOneZoomMode ==
  /\ ZoomModes <= 1
  /\ (keyState.zoom["in"] \/ keyState.zoom["out"]) => ZoomModes = 1
  /\ last = "tick" => Cardinality(ZoomModeCalls) <= 1

\* the pose of the camera: target, distance, azimuth, elevation, fov
Pose(cam) == <<cam.target, cam.distance, cam.azimuth, cam.elevation, cam.fov>>

\* C11: a keydown or keyup whose target is a text input field leaves the
\* direction flags, the activity flags and the pose unchanged, for every key,
\* the reset key " " included.
C11_InputTargetIgnored ==
  [][\A e \in KeyEvents :
       (e.target = "INPUT" /\ last' \in {"keydown", "keyup"}
          /\ (KeyDown(e) \/ KeyUp(e)))
         => (UNCHANGED keyVars /\ Pose(camera)' = Pose(camera))]_vars

\* every opposing pair of direction flags is either both set or both clear
Balanced(ks) ==
  /\ ks.orbit["left"] = ks.orbit["right"]
  /\ ks.orbit["up"] = ks.orbit["down"]
  /\ ks.pan["left"] = ks.pan["right"]
  /\ ks.pan["up"] = ks.pan["down"]
  /\ ks.pan["forward"] = ks.pan["backward"]
  /\ ks.zoom["in"] = ks.zoom["out"]

\* some direction flag is set
SomeFlag(ks) == SomeTrue(ks.orbit) \/ SomeTrue(ks.pan) \/ SomeTrue(ks.zoom)

\* C12: a tick at which opposing pairs are set and no unpaired flag is set
\* passes only zero deltas and leaves the pose unchanged (the distance up to
\* the rounding of one product and one quotient), from any reachable state
\* and under any zoom mode.
C12_OpposingKeysCancel ==
  [][(last' = "tick" /\ Balanced(keyState) /\ SomeFlag(keyState))
       => /\ \A i \in DOMAIN calls' :
               \A j \in DOMAIN calls'[i].args : calls'[i].args[j] = 0
          /\ camera'.target = camera.target
          /\ camera'.azimuth = camera.azimuth
          /\ camera'.elevation = camera.elevation
          /\ camera'.fov = camera.fov
          /\ Abs(camera'.distance - camera.distance) <= 2]_vars

\* the handler that ran last ended in a pose update
PoseUpdated == calls # <<>> /\ calls[Len(calls)].op = "updatePosition"

\* C13: every pose update, the one of the constructor included, leaves the
\* renderer with the eye position and with a view-projection matrix computed
\* from the updated pose, whatever the convention flag; the matrix is never
\* left stale.
C13_MatrixPublished ==
  PoseUpdated =>
    /\ uni.cameraPos = camera.position
    /\ uni.invMatrix.set
    /\ uni.invMatrix = InvViewProj(camera, canvas)

\* C15: no matrix built from the aspect ratio of a canvas of zero width or
\* zero height is ever published.
C15_ZeroViewportGuarded ==
  uni.invMatrix.set =>
    /\ uni.invMatrix.aspect[1] # 0
    /\ uni.invMatrix.aspect[2] # 0

\* C14: a wheel event enters exactly one of zoom, adjFOVWithoutZoom and
\* adjFOV, chosen by the modifiers of the event alone: alt (with or without
\* ctrl) adjFOVWithoutZoom, ctrl without alt adjFOV, neither zoom; the
\* direction flags and activity flags have no say and are left unchanged.
C14_WheelMapsToOneCall ==
  [][\A e \in WheelEvents :
       (last' = "wheel" /\ Wheel(e)) =>
         /\ Len(calls') = 2
         /\ calls'[2] = Call("updatePosition", <<>>)
         /\ e.altKey => calls'[1] = Call("adjFOVWithoutZoom", <<Mul(e.deltaY, FOV_SPEED)>>)
         /\ (e.ctrlKey /\ ~e.altKey) => calls'[1] = Call("adjFOV", <<Mul(e.deltaY, FOV_SPEED)>>)
         /\ (~e.ctrlKey /\ ~e.altKey) => calls'[1] = Call("zoom", <<Mul(e.deltaY, ZOOM_SPEED)>>)
         /\ UNCHANGED keyVars]_vars

\* C14 witness: a wheel event entered adjFOVWithoutZoom while the keyboard
\* was in the FOV-adjust mode.
C14_Witness ==
  /\ last = "wheel"
  /\ keyFOV
  /\ ~keyFOVWithoutZoom
  /\ calls[1].op = "adjFOVWithoutZoom"

\* the pointer listeners
PointerHandlers == {"mousedown", "mouseup", "mousemove"}

\* C16, presses: a press of the primary button starts the orbit gesture, one
\* of the secondary button the pan gesture, and no press ends a gesture; the
\* middle button resets the pose; every press stores its coordinates.
C16_Press ==
  \A e \in MouseDownEvents :
    (last' = "mousedown" /\ MouseDown(e)) =>
      /\ state'.orbitActive = (state.orbitActive \/ e.button = 0)
      /\ state'.panActive = (state.panActive \/ e.button = 2)
      /\ state'.lastX = e.clientX /\ state'.lastY = e.clientY
      /\ e.button = 1 => calls'[1] = Call("reset", <<B2N(e.ctrlKey), B2N(e.altKey)>>)
      /\ e.button # 1 => (calls' = <<>> /\ camera' = camera)

\* C16, releases: a release of the primary button ends the orbit gesture, one
\* of the secondary button the pan gesture, and nothing else changes.
C16_Release ==
  \A e \in MouseUpEvents :
    (last' = "mouseup" /\ MouseUp(e)) =>
      /\ state'.orbitActive = (state.orbitActive /\ e.button # 0)
      /\ state'.panActive = (state.panActive /\ e.button # 2)
      /\ state'.lastX = state.lastX /\ state'.lastY = state.lastY
      /\ calls' = <<>> /\ camera' = camera

\* C16, moves: a move calls orbit iff the orbit gesture is active and pan iff
\* the pan gesture is active, with the move's coordinates minus the stored
\* ones; it stores its coordinates and starts or ends no gesture; with no
\* gesture active nothing else changes.
C16_Move ==
  \A e \in MouseMoveEvents :
    (last' = "mousemove" /\ MouseMove(e)) =>
      LET dx == e.clientX - state.lastX
          dy == e.clientY - state.lastY
          orbits == {i \in DOMAIN calls' : calls'[i].op = "orbit"}
          pans == {i \in DOMAIN calls' : calls'[i].op = "pan"}
      IN  /\ (orbits # {}) = state.orbitActive
          /\ (pans # {}) = state.panActive
          /\ \A i \in orbits : calls'[i].args = <<dx, dy>>
          /\ \A i \in pans : calls'[i].args = <<dx, dy, 0>>
          /\ Cardinality(orbits) <= 1 /\ Cardinality(pans) <= 1
          /\ state'.lastX = e.clientX /\ state'.lastY = e.clientY
          /\ state'.orbitActive = state.orbitActive
          /\ state'.panActive = state.panActive
          /\ (~state.orbitActive /\ ~state.panActive)
               => (calls' = <<>> /\ camera' = camera /\ uni' = uni)

\* C16: pointer gesture gating.  Orbit is called by a move iff the last
\* primary-button event was a press, pan iff the last secondary-button event
\* was a press; (dx, dy) is taken from the last press or move; a move with no
\* gesture active stores its coordinates only; a middle-button press resets
\* the pose and starts or ends no gesture; no other handler touches the
\* interaction state.
C16_PointerGating ==
  [][/\ C16_Press
     /\ C16_Release
     /\ C16_Move
     /\ last' \notin PointerHandlers => state' = state]_vars

\* C16 witness: after a press and a release of one button a move found no
\* gesture active and stored its coordinates only.
C16_Witness ==
  /\ last = "mousemove"
  /\ steps = 3
  /\ calls = <<>>
  /\ ~state.orbitActive /\ ~state.panActive
  /\ state.lastX # 0
  /\ camera = NewCamera.cam

\* the handler of this step enters the method op
Enters(op) == \E i \in DOMAIN calls' : calls'[i].op = op

\* C17: a tick enters the operation of a category iff the activity flag of
\* that category is set; with no flag set it enters nothing, publishes nothing
\* and leaves the camera as it is; no tick writes a direction flag or an
\* activity flag.
C17_TickFollowsFlags ==
  [][last' = "tick" =>
       /\ Enters("orbit") = keyOrbit
       /\ Enters("pan") = keyPan
       /\ Enters("zoom") = keyZoom
       /\ Enters("adjFOV") = keyFOV
       /\ Enters("adjFOVWithoutZoom") = keyFOVWithoutZoom
       /\ ~(keyOrbit \/ keyPan \/ keyZoom \/ keyFOV \/ keyFOVWithoutZoom)
            => (calls' = <<>> /\ camera' = camera /\ uni' = uni)
       /\ UNCHANGED keyVars]_vars

\* C17 witness: a tick with the orbit flag set and the others clear entered
\* orbit and nothing else.
C17_Witness ==
  /\ last = "tick"
  /\ keyOrbit /\ ~keyPan /\ ~keyZoom /\ ~keyFOV /\ ~keyFOVWithoutZoom
  /\ Len(calls) = 2
  /\ calls[1].op = "orbit"

\* C18: in every reachable state keyOrbit is set iff some orbit direction
\* flag is set, keyPan iff some pan direction flag is set, and one of keyZoom,
\* keyFOV, keyFOVWithoutZoom is set iff the zoom-in or the zoom-out flag is
\* set.
C18_ActivityFlagsConsistent ==
  /\ keyOrbit = (\E d \in DOMAIN keyState.orbit : keyState.orbit[d])
  /\ keyPan = (\E d \in DOMAIN keyState.pan : keyState.pan[d])
  /\ (keyZoom \/ keyFOV \/ keyFOVWithoutZoom)
       = (keyState.zoom["in"] \/ keyState.zoom["out"])

\* C18 witness: three key events have left a pan flag and the zoom-out flag
\* set, the zoom in the mode that keeps the apparent size.
C18_Witness ==
  /\ steps = 3
  /\ last \in {"keydown", "keyup"}
  /\ keyPan /\ ~keyOrbit
  /\ keyState.zoom["out"] /\ ~keyState.zoom["in"]
  /\ keyFOVWithoutZoom /\ ~keyZoom

\* C19 as claimed: while zoom-in is held after a plain press (distance zoom
\* active), the keydown of the ctrl key reclassifies the held zoom into
\* FOV-adjust, with no further event of a zoom key.
C19_CtrlPressReclassifies ==
  [][\A e \in KeyEvents :
       (/\ last' = "keydown"
        /\ e.key = "Control" /\ e.ctrlKey /\ ~e.altKey /\ e.target = "BODY"
        /\ keyState.zoom["in"] /\ keyZoom
        /\ KeyDown(e))
         => (keyFOV' /\ ~keyZoom')]_vars

\* C19 as amended: the zoom mode follows the modifiers of the most recent key
\* event that keyCamera accepts (a mapped key, not typed into a text input):
\* such an event sets keyZoom, keyFOV, keyFOVWithoutZoom from its own ctrl and
\* alt while a zoom flag is set, whatever the modifiers were when the zoom key
\* went down; any other key event, the keydown of ctrl itself included,
\* leaves the three flags as they are; and a tick that finds keyFOV set and
\* keyZoom clear enters adjFOV and not zoom.
C19_AcceptedEventReclassifies ==
  [][/\ \A e \in KeyEvents :
          \/ IF e.key \in DOMAIN keyMap /\ e.target # "INPUT"
             THEN LET held == keyState'.zoom["in"] \/ keyState'.zoom["out"]
                  IN  /\ keyZoom' = (held /\ ~e.ctrlKey /\ ~e.altKey)
                      /\ keyFOV' = (held /\ e.ctrlKey)
                      /\ keyFOVWithoutZoom' = (held /\ e.altKey)
             ELSE UNCHANGED <<keyZoom, keyFOV, keyFOVWithoutZoom>>
          \/ ~(\/ last' = "keydown" /\ KeyDown(e)
               \/ last' = "keyup" /\ KeyUp(e))
     /\ (last' = "tick" /\ keyFOV /\ ~keyZoom)
          => (Enters("adjFOV") /\ ~Enters("zoom"))]_vars

\* C19 witness: zoom-in and an orbit key are held, the FOV-adjust mode is
\* active, and the tick that followed the two keydowns entered adjFOV and not
\* zoom.
C19_Witness ==
  /\ last = "tick"
  /\ steps = 3
  /\ keyState.zoom["in"] /\ ~keyState.zoom["out"]
  /\ keyOrbit
  /\ keyFOV /\ ~keyZoom /\ ~keyFOVWithoutZoom
  /\ HasCall("adjFOV") /\ ~HasCall("zoom")

\* the direction flag of a mapped key
FlagOf(ks, key) == ks[keyMap[key].type][keyMap[key].dir]

\* C20 as claimed: after the keyup of a mapped key its direction flag is
\* clear, whatever the target and the modifiers of the keyup.
C20_KeyUpClearsFlag ==
  [][\A e \in KeyEvents :
       \/ e.key \notin DOMAIN keyMap
       \/ ~FlagOf(keyState', e.key)
       \/ ~(last' = "keyup" /\ KeyUp(e))]_vars

\* C20 as amended: after the keyup of a mapped key whose target is not a text
\* input its direction flag is clear, whatever the modifiers of the keyup;
\* a flag that is clear stays clear until the next keydown; and once every
\* direction flag is clear every activity flag is clear and a tick leaves the
\* camera as it is.
C20_AcceptedKeyUpClearsFlag ==
  [][/\ \A e \in KeyEvents :
          \/ e.key \notin DOMAIN keyMap
          \/ e.target = "INPUT"
          \/ ~FlagOf(keyState', e.key)
          \/ ~(last' = "keyup" /\ KeyUp(e))
     /\ last' # "keydown" =>
          \A key \in DOMAIN keyMap :
            ~FlagOf(keyState, key) => ~FlagOf(keyState', key)
     /\ ~SomeFlag(keyState') =>
          ~(keyOrbit' \/ keyPan' \/ keyZoom' \/ keyFOV' \/ keyFOVWithoutZoom')
     /\ (last' = "tick" /\ ~SomeFlag(keyState))
          => (calls' = <<>> /\ camera' = camera)]_vars

\* C20 witness: a key was pressed, a tick moved the camera, and the keyup of
\* the key has left every direction flag and every activity flag clear.
C20_Witness ==
  /\ last = "keyup"
  /\ steps = 3
  /\ camera # NewCamera.cam
  /\ ~SomeFlag(keyState)
  /\ ~(keyOrbit \/ keyPan \/ keyZoom \/ keyFOV \/ keyFOVWithoutZoom)

=============================================================================
